---- MODULE Spec2Model ----
(***************************************************************************)
(* A model of virtinst/osdict.py: the registry of guest OS variants        *)
(* (_allvariants), the inheriting constructor _OSVariant.__init__, the     *)
(* conditional defaults (_SupportCheck), and the three queries list_os,    *)
(* _sort and lookup_osdict_key.                                            *)
(*                                                                         *)
(* Python values are written as TLA+ strings.  A Python str is the string  *)
(* itself; the three Python constants None, True and False and the module  *)
(* constant _SENTINEL (-1234) are the four marked strings below, which are *)
(* no Python str of the model.  A _SupportCheck object is written as the   *)
(* name of the module-level variable that holds it; its _checks list is    *)
(* the entry of that name in the variable checks.                          *)
(***************************************************************************)
EXTENDS Integers, Sequences, FiniteSets, TLC

VARIABLES
    allvariants,  \* _allvariants: registry key -> _OSVariant object
    checks,       \* the _SupportCheck objects: object -> its _checks list
    sortpref,     \* the list object a caller of list_os passes as sortpref
    hashorder,    \* the iteration order of this process's dicts
    last          \* the last call made, its arguments and its outcome

vars == <<allvariants, checks, sortpref, hashorder, last>>

----------------------------------------------------------------------------
(* Python values                                                           *)

None == "<None>"
True == "<True>"
False == "<False>"
_SENTINEL == "<-1234>"

\* Python truth of a value: None, False and the empty str are false.
Truthy(v) == v \notin {None, False, ""}

\* bool(v)
PyBool(v) == IF Truthy(v) THEN True ELSE False

\* a or b
PyOr(a, b) == IF Truthy(a) THEN a ELSE b

\* a and b
PyAnd(a, b) == IF Truthy(a) THEN b ELSE a

\* The bytes of every str of the model that is compared or lower-cased.
Chars(s) ==
    CASE s = "linux" -> <<108, 105, 110, 117, 120>>
      [] s = "windows" -> <<119, 105, 110, 100, 111, 119, 115>>
      [] s = "Linux" -> <<76, 105, 110, 117, 120>>
      [] s = "bsd" -> <<98, 115, 100>>
      [] s = "debian" -> <<100, 101, 98, 105, 97, 110>>
      [] s = "fedora" -> <<102, 101, 100, 111, 114, 97>>
      [] s = "zzzzzzz" -> <<122, 122, 122, 122, 122, 122, 122>>
      [] s = "debianetch" -> <<100, 101, 98, 105, 97, 110, 101, 116, 99, 104>>
      [] s = "debianlenny" -> <<100, 101, 98, 105, 97, 110, 108, 101, 110, 110, 121>>
      [] s = "debiansqueeze" ->
            <<100, 101, 98, 105, 97, 110, 115, 113, 117, 101, 101, 122, 101>>
      [] s = "debianwheezy" ->
            <<100, 101, 98, 105, 97, 110, 119, 104, 101, 101, 122, 121>>
      [] s = "debian4" -> <<100, 101, 98, 105, 97, 110, 52>>
      [] s = "debian5" -> <<100, 101, 98, 105, 97, 110, 53>>
      [] s = "debian6" -> <<100, 101, 98, 105, 97, 110, 54>>
      [] s = "debian7" -> <<100, 101, 98, 105, 97, 110, 55>>
      [] s = "win2k" -> <<119, 105, 110, 50, 107>>
      [] s = "mswin4" -> <<109, 115, 119, 105, 110, 52>>
      [] s = "solaris" -> <<115, 111, 108, 97, 114, 105, 115>>
      [] s = "solaris11" -> <<115, 111, 108, 97, 114, 105, 115, 49, 49>>
      [] s = "other" -> <<111, 116, 104, 101, 114>>
      [] s = "msdos" -> <<109, 115, 100, 111, 115>>
      [] s = "rhel9" -> <<114, 104, 101, 108, 57>>

\* str.lower() on the bytes: A..Z (65..90) become a..z.
Lower(cs) == [i \in DOMAIN cs |-> IF cs[i] >= 65 /\ cs[i] <= 90 THEN cs[i] + 32 ELSE cs[i]]

\* name != name.lower()
NotLowercase(name) == Chars(name) # Lower(Chars(name))

\* a < b on two byte sequences: the first differing byte decides, and a
\* proper prefix is smaller.
RECURSIVE SeqLess(_, _)
SeqLess(a, b) ==
    IF b = <<>> THEN FALSE
    ELSE IF a = <<>> THEN TRUE
    ELSE IF Head(a) # Head(b) THEN Head(a) < Head(b)
    ELSE SeqLess(Tail(a), Tail(b))

\* a < b on two str
StrLess(a, b) == SeqLess(Chars(a), Chars(b))

----------------------------------------------------------------------------
(* _OSVariant                                                              *)

\* The keyword parameters of _OSVariant.__init__ other than is_type.
KwNames ==
    {"sortby", "parent", "distro", "supported", "three_stage_install",
     "acpi", "apic", "clock", "netmodel", "diskbus", "inputtype", "inputbus",
     "videomodel"}

\* The default of a keyword parameter: sortby=None, every other _SENTINEL.
KwDefault(k) == IF k = "sortby" THEN None ELSE _SENTINEL

\* The keyword arguments of a call that passes `given`.
Kwargs(given) ==
    [k \in KwNames |-> IF k \in DOMAIN given THEN given[k] ELSE KwDefault(k)]

\* The attributes __init__ sets through _get_default.
InheritFields ==
    {"typename", "distro", "supported", "three_stage_install", "acpi", "apic",
     "clock", "netmodel", "videomodel", "diskbus", "inputtype", "inputbus"}

\* The default _get_default is called with for each attribute.
FieldFallback(f) ==
    CASE f = "distro" -> None
      [] f = "supported" -> False
      [] OTHER -> _SENTINEL

_approved_types == {"linux", "windows", "unix", "solaris", "other"}

\* A raised exception, and a returned object.
Raise(exc) == [ok |-> FALSE, err |-> exc, obj |-> <<>>]
Return(o) == [ok |-> TRUE, err |-> "", obj |-> <<o>>]

\* _get_default with one attribute left out of the inheritance.
GetDefaultSkipSupported(parent, name, val, default) ==
    IF val = _SENTINEL
        THEN IF parent = <<>> \/ name = "supported" THEN default ELSE parent[1][name]
        ELSE val

\* The local function _get_default; parent is <<>> for None and <<object>>
\* for a parent object.
_get_default(parent, name, val, default) ==
    IF val = _SENTINEL
        THEN IF parent = <<>> THEN default ELSE parent[1][name]
        ELSE val

\* The parent rule with a type's parent silently dropped.
ResolveParentLenient(reg, is_type, parent) ==
    IF Truthy(is_type)
        THEN [ok |-> TRUE, err |-> "", obj |-> <<>>]
    ELSE IF parent = _SENTINEL
        THEN Raise("RuntimeError: Must specify explicit parent")
    ELSE IF parent \notin DOMAIN reg
        THEN Raise("KeyError")
    ELSE Return(reg[parent])

\* The first statement of __init__: the parent rule.  The result's obj is
\* the local variable parent afterwards, <<>> for None.
ResolveParent(reg, is_type, parent) ==
    IF Truthy(is_type)
        THEN IF parent # _SENTINEL
                THEN Raise("RuntimeError: OS types must not specify parent")
                ELSE [ok |-> TRUE, err |-> "", obj |-> <<>>]
    ELSE IF parent = _SENTINEL
        THEN Raise("RuntimeError: Must specify explicit parent")
    ELSE IF parent \notin DOMAIN reg
        THEN Raise("KeyError")
    ELSE Return(reg[parent])

\* _OSVariant(name, label, is_type=is_type, **kw) against the registry reg.
_OSVariant(reg, name, label, is_type, kw) ==
    LET p == ResolveParent(reg, is_type, kw.parent)
        parent == p.obj
        typearg == PyOr(PyAnd(PyBool(is_type), name), _SENTINEL)
        typename == _get_default(parent, "typename", typearg, _SENTINEL)
        given(f) == IF f = "typename" THEN typearg ELSE kw[f]
    IN  IF ~p.ok
            THEN p
        ELSE IF NotLowercase(name)
            THEN Raise("RuntimeError: OS dictionary wants lowercase name")
        ELSE IF typename \notin _approved_types
            THEN Raise("RuntimeError: type not in list of approved distro types")
        ELSE Return(
            [a \in {"name", "label", "sortby", "is_type"} \cup InheritFields |->
                CASE a = "name" -> name
                  [] a = "label" -> label
                  [] a = "sortby" -> kw.sortby
                  [] a = "is_type" -> PyBool(is_type)
                  [] OTHER -> _get_default(parent, a, given(a), FieldFallback(a))])

\* lookup_os(key): the object, or None
lookup_os(reg, key) == IF key \in DOMAIN reg THEN <<reg[key]>> ELSE <<>>

\* dict[key] = value
DictSet(d, key, value) ==
    [k \in DOMAIN d \cup {key} |-> IF k = key THEN value ELSE d[k]]

\* The registry after _add_type / _add_var ran on reg: the new object under
\* its name, or reg itself when the constructor raised.
Registered(reg, name, label, is_type, kw) ==
    LET v == _OSVariant(reg, name, label, is_type, kw)
    IN  IF v.ok THEN DictSet(reg, name, v.obj[1]) ELSE reg

\* The record of a call: what was called with what, how it ended, what it
\* returned, the support checks it made of the connection, and (list_os) the
\* keys of its local sortmap.
Call(op, args, res, ret, calls, sortmap) ==
    [op |-> op, args |-> args, ok |-> res.ok, err |-> res.err, ret |-> ret,
     calls |-> calls, sortmap |-> sortmap]

\* _add_type(name, label, **given): is_type is forced to True.
_add_type(name, label, given) ==
    LET kw == Kwargs(given)
    IN  /\ allvariants' = Registered(allvariants, name, label, True, kw)
        /\ last' = Call("_add_type", [name |-> name, is_type |-> True, kw |-> kw],
                        _OSVariant(allvariants, name, label, True, kw),
                        <<>>, <<>>, {})
        /\ UNCHANGED <<checks, sortpref, hashorder>>

\* _add_var(name, label, **given): is_type keeps its default False.
_add_var(name, label, given) ==
    LET kw == Kwargs(given)
    IN  /\ allvariants' = Registered(allvariants, name, label, False, kw)
        /\ last' = Call("_add_var", [name |-> name, is_type |-> False, kw |-> kw],
                        _OSVariant(allvariants, name, label, False, kw),
                        <<>>, <<>>, {})
        /\ UNCHANGED <<checks, sortpref, hashorder>>

----------------------------------------------------------------------------
(* The definitions at the end of the module, as the calls they are.        *)

\* The keyword arguments `given` with parent=p added.
WithParent(given, p) ==
    [k \in DOMAIN given \cup {"parent"} |-> IF k = "parent" THEN p ELSE given[k]]

NoKw == <<>>

\* Keyword arguments of the debian definitions and of rhel5's.
KwEtch == [distro |-> "debian", sortby |-> "debian4"]
KwLenny ==
    [sortby |-> "debian5", supported |-> True, diskbus |-> "_DISK_BUS_VIRTIO",
     netmodel |-> "_NET_MODEL_VIRTIO"]
KwSqueeze ==
    [sortby |-> "debian6", diskbus |-> "_DISK_BUS_VIRTIO",
     netmodel |-> "_NET_MODEL_VIRTIO", inputtype |-> "tablet", inputbus |-> "usb"]
KwWheezy == [sortby |-> "debian7"]
KwRhel5 == [supported |-> False]

\* Names _add_type is called with: an approved type, a type that is not
\* approved, and a name that is not lowercase.
TypeNames == {"linux", "bsd", "Linux"}

\* Keyword arguments _add_type is called with.
TypeKw == {NoKw, WithParent(NoKw, "linux")}

\* Names _add_var is called with.
VarNames == {"debianlenny", "debiansqueeze", "debianwheezy"}

\* Keyword arguments _add_var is called with for each name, before parent:
\* the name's own definition and, for debianlenny, two more.
VarKw(name) ==
    CASE name = "debianlenny" -> {KwLenny, KwEtch, KwRhel5}
      [] name = "debiansqueeze" -> {KwSqueeze}
      [] name = "debianwheezy" -> {KwWheezy}

\* Parents a definition names.
ParentNames == {"linux"} \cup VarNames

NoCall == Call("", <<>>, Return(None), <<>>, <<>>, {})

\* The _SupportCheck objects the module creates, each with its one check.
ModuleChecks ==
    [o \in {"_DISK_BUS_VIRTIO", "_NET_MODEL_VIRTIO", "_ACPI_OLD_XEN"} |->
        CASE o = "_DISK_BUS_VIRTIO" -> << <<"SUPPORT_CONN_HV_VIRTIO", "virtio">> >>
          [] o = "_NET_MODEL_VIRTIO" -> << <<"SUPPORT_CONN_HV_VIRTIO", "virtio">> >>
          [] o = "_ACPI_OLD_XEN" -> << <<"SUPPORT_CONN_HV_SKIP_DEFAULT_ACPI", False>> >>]

\* The module before its first definition runs.
Init ==
    /\ allvariants = <<>>
    /\ checks = ModuleChecks
    /\ sortpref = <<>>
    /\ hashorder = <<>>
    /\ last = NoCall

AddType == \E name \in TypeNames, given \in TypeKw : _add_type(name, "Label", given)

AddVar ==
    \E name \in VarNames :
        \E given \in VarKw(name) \cup {WithParent(g, p) : g \in VarKw(name), p \in ParentNames} :
            _add_var(name, "Label", given)

Next == AddType \/ AddVar

Spec == Init /\ [][Next]_vars

----------------------------------------------------------------------------
(* Registration                                                            *)

\* The call c is a registration.
IsAdd(c) == c.op \in {"_add_type", "_add_var"}

\* C1: a registration that succeeds gives the new record, for every
\* attribute its definition left unset, the value the parent object had when
\* the definition ran, and the attribute's fallback when there is no parent.
\* A type's typename is never unset: __init__ passes the name.
C1_InheritsFromParent ==
    [][(IsAdd(last') /\ last'.ok) =>
        LET a == last'.args
            R == allvariants'[a.name]
            Unset(F) == IF F = "typename" THEN a.is_type = False
                                          ELSE a.kw[F] = _SENTINEL
        IN  \A F \in InheritFields :
                Unset(F) =>
                    IF a.is_type = False
                        THEN R[F] = allvariants[a.kw.parent][F]
                        ELSE R[F] = FieldFallback(F)]_vars

\* C1 witness: debianwheezy has just been registered under debiansqueeze
\* without a supported argument and is supported; only debianlenny's
\* definition ever passes supported=True.
C1_WheezySupported ==
    /\ last.op = "_add_var" /\ last.ok
    /\ last.args.name = "debianwheezy"
    /\ last.args.kw.parent = "debiansqueeze"
    /\ last.args.kw.supported = _SENTINEL
    /\ allvariants["debianwheezy"].supported = True
    /\ allvariants["debiansqueeze"].supported = True
    /\ "debianlenny" \in DOMAIN allvariants
    /\ allvariants["debianlenny"].supported = True
    /\ allvariants["linux"].supported = False

\* C2: a registration under a name that is already a key of the registry
\* fails and leaves the registry as it was.
C2_NoDuplicateRegistration ==
    [][(IsAdd(last') /\ last'.args.name \in DOMAIN allvariants) =>
        (~last'.ok /\ allvariants' = allvariants)]_vars

\* C3: a type with a declared parent, a variant with no parent and a variant
\* whose parent is not registered all fail, and a failed registration adds
\* nothing to the registry.
C3_ParentRule ==
    [][IsAdd(last') =>
        LET a == last'.args
        IN  /\ (a.is_type = True /\ a.kw.parent # _SENTINEL) => ~last'.ok
            /\ (a.is_type = False /\ a.kw.parent = _SENTINEL) => ~last'.ok
            /\ (a.is_type = False /\ a.kw.parent \notin DOMAIN allvariants)
                    => ~last'.ok
            /\ ~last'.ok => allvariants' = allvariants]_vars

\* C3 witness: a variant naming a parent that is not registered has just
\* been refused, in a registry that holds other records.
C3_MissingParentRefused ==
    /\ last.op = "_add_var" /\ ~last.ok /\ last.err = "KeyError"
    /\ last.args.kw.parent \notin DOMAIN allvariants
    /\ last.args.name \notin DOMAIN allvariants
    /\ "linux" \in DOMAIN allvariants

----------------------------------------------------------------------------
(* _SupportCheck and lookup_osdict_key                                     *)

\* Most (key, val) pairs one _SupportCheck holds in the model.
MaxChecks == 2

\* The capabilities the module asks a connection about.
SupportKeys == {"SUPPORT_CONN_HV_VIRTIO", "SUPPORT_CONN_HV_SKIP_DEFAULT_ACPI"}

\* A connection, as what its check_conn_hv_support answers for each
\* capability and the hypervisor type it is asked about.
Conns == [SupportKeys -> BOOLEAN]

HvTypes == {"kvm", "xen"}

\* check() without the return inside the loop: every pair is asked, and the
\* last supported one wins.
RECURSIVE CheckAllFrom(_, _, _, _)
CheckAllFrom(cks, i, conn, hv_type) ==
    IF i > Len(cks)
        THEN [val |-> _SENTINEL, calls |-> <<>>]
        ELSE LET rest == CheckAllFrom(cks, i + 1, conn, hv_type)
                 call == <<cks[i][1], hv_type>>
             IN  [val |-> IF rest.val = _SENTINEL /\ conn[cks[i][1]]
                              THEN cks[i][2] ELSE rest.val,
                  calls |-> <<call>> \o rest.calls]

\* _SupportCheck.check from its i-th pair on: the value returned and the
\* calls of conn.check_conn_hv_support made, in order.
RECURSIVE CheckFrom(_, _, _, _)
CheckFrom(cks, i, conn, hv_type) ==
    IF i > Len(cks)
        THEN [val |-> _SENTINEL, calls |-> <<>>]
        ELSE LET call == <<cks[i][1], hv_type>>
             IN  IF conn[cks[i][1]]
                     THEN [val |-> cks[i][2], calls |-> <<call>>]
                     ELSE LET rest == CheckFrom(cks, i + 1, conn, hv_type)
                          IN  [val |-> rest.val, calls |-> <<call>> \o rest.calls]

\* lookup_osdict_key with `if not val` for `if val == _SENTINEL`.
LookupFalsyIsUnset(reg, cks, conn, hv_type, variant, key, default) ==
    IF variant # None /\ variant \notin DOMAIN reg
        THEN [ok |-> FALSE, err |-> "KeyError", val |-> None, calls |-> <<>>]
        ELSE LET attr == IF variant # None THEN reg[variant][key] ELSE _SENTINEL
                 chk == IF attr \in DOMAIN cks
                            THEN CheckFrom(cks[attr], 1, conn, hv_type)
                            ELSE [val |-> attr, calls |-> <<>>]
             IN  [ok |-> TRUE, err |-> "",
                  val |-> IF chk.val = _SENTINEL \/ ~Truthy(chk.val)
                              THEN default ELSE chk.val,
                  calls |-> chk.calls]

\* lookup_osdict_key(conn, hv_type, variant, key, default) against the
\* registry reg and the _SupportCheck objects cks.
lookup_osdict_key(reg, cks, conn, hv_type, variant, key, default) ==
    IF variant # None /\ variant \notin DOMAIN reg
        THEN [ok |-> FALSE, err |-> "KeyError", val |-> None, calls |-> <<>>]
        ELSE LET attr == IF variant # None THEN reg[variant][key] ELSE _SENTINEL
                 chk == IF attr \in DOMAIN cks
                            THEN CheckFrom(cks[attr], 1, conn, hv_type)
                            ELSE [val |-> attr, calls |-> <<>>]
             IN  [ok |-> TRUE, err |-> "",
                  val |-> IF chk.val = _SENTINEL THEN default ELSE chk.val,
                  calls |-> chk.calls]

\* A definition of the module: the function called and its arguments.
Def(fn, name, label, given) ==
    [is_type |-> IF fn = "_add_type" THEN True ELSE False, name |-> name,
     label |-> label, given |-> given]

\* The registry after the definitions defs ran, in order, on reg.
RECURSIVE Build(_, _)
Build(reg, defs) ==
    IF defs = <<>>
        THEN reg
        ELSE Build(Registered(reg, Head(defs).name, Head(defs).label,
                              Head(defs).is_type, Kwargs(Head(defs).given)),
                   Tail(defs))

\* Definitions of the module, in file order: linux and the debian chain,
\* windows and win2k, solaris and solaris11, other and msdos.
ModuleDefs ==
    << Def("_add_type", "linux", "Linux", NoKw),
       Def("_add_var", "debianetch", "Debian Etch", WithParent(KwEtch, "linux")),
       Def("_add_var", "debianlenny", "Debian Lenny",
           WithParent(KwLenny, "debianetch")),
       Def("_add_var", "debiansqueeze", "Debian Squeeze",
           WithParent(KwSqueeze, "debianlenny")),
       Def("_add_var", "debianwheezy", "Debian Wheezy",
           WithParent(KwWheezy, "debiansqueeze")),
       Def("_add_type", "windows", "Windows",
           [clock |-> "localtime", three_stage_install |-> True,
            inputtype |-> "tablet", inputbus |-> "usb", videomodel |-> "vga"]),
       Def("_add_var", "win2k", "Microsoft Windows 2000",
           [sortby |-> "mswin4", acpi |-> "_ACPI_OLD_XEN",
            apic |-> "_ACPI_OLD_XEN", parent |-> "windows"]),
       Def("_add_type", "solaris", "Solaris", [clock |-> "localtime"]),
       Def("_add_var", "solaris11", "Sun Solaris 11",
           [inputtype |-> None, inputbus |-> None, parent |-> "solaris"]),
       Def("_add_type", "other", "Other", NoKw),
       Def("_add_var", "msdos", "MS-DOS",
           [acpi |-> False, apic |-> False, parent |-> "other"]) >>

\* The registry those definitions leave.
ModuleRegistry == Build(<<>>, ModuleDefs)

\* Arguments add_check is called with, on one of the module's objects.
AddCheckObjects == {"_DISK_BUS_VIRTIO"}
AddCheckPairs ==
    { <<"SUPPORT_CONN_HV_SKIP_DEFAULT_ACPI", "scsi">>,
      <<"SUPPORT_CONN_HV_VIRTIO", True>> }

\* Arguments lookup_osdict_key is called with; "rhel9" is not registered.
LookupVariants == {None, "debianwheezy", "win2k", "solaris11", "msdos", "rhel9"}
LookupKeys == {"diskbus", "acpi", "inputtype", "clock"}
LookupDefaults == {"ide", None}

\* obj.add_check(key, val)
add_check(obj, key, val) ==
    /\ Len(checks[obj]) < MaxChecks
    /\ checks' = [checks EXCEPT ![obj] = Append(@, <<key, val>>)]
    /\ last' = Call("add_check", [obj |-> obj, key |-> key, val |-> val],
                    Return(None), <<>>, <<>>, {})
    /\ UNCHANGED <<allvariants, sortpref, hashorder>>

\* A caller's lookup_osdict_key(conn, hv_type, variant, key, default).
LookupOsdictKey(conn, hv_type, variant, key, default) ==
    LET r == lookup_osdict_key(allvariants, checks, conn, hv_type, variant, key,
                               default)
    IN  /\ last' = Call("lookup_osdict_key",
                        [conn |-> conn, hv_type |-> hv_type, variant |-> variant,
                         key |-> key, default |-> default],
                        r, <<r.val>>, r.calls, {})
        /\ UNCHANGED <<allvariants, checks, sortpref, hashorder>>

\* The module after its definitions ran.
LookupInit ==
    /\ allvariants = ModuleRegistry
    /\ checks = ModuleChecks
    /\ sortpref = <<>>
    /\ hashorder = <<>>
    /\ last = NoCall

AddCheck ==
    \E obj \in AddCheckObjects, pair \in AddCheckPairs :
        add_check(obj, pair[1], pair[2])

Lookup ==
    \E conn \in Conns, hv_type \in HvTypes, variant \in LookupVariants,
       key \in LookupKeys, default \in LookupDefaults :
        LookupOsdictKey(conn, hv_type, variant, key, default)

LookupNext == AddCheck \/ Lookup

SpecLookup == LookupInit /\ [][LookupNext]_vars

----------------------------------------------------------------------------
(* Attribute lookup                                                        *)

\* The value of the first pair of cks whose capability conn supports, and
\* fallback when conn supports none.
FirstSupported(cks, conn, fallback) ==
    LET hits == {i \in 1..Len(cks) : conn[cks[i][1]]}
    IN  IF hits = {}
            THEN fallback
            ELSE cks[CHOOSE i \in hits : \A j \in hits : i <= j][2]

\* C4: lookup_osdict_key returns default for variant None without asking the
\* connection; for a registered variant it returns default when the attribute
\* is _SENTINEL, the first supported value (else default) when the attribute
\* is a _SupportCheck, and the attribute itself otherwise, None and False
\* included.
C4_LookupResult ==
    last.op = "lookup_osdict_key" =>
        LET a == last.args
        IN  /\ a.variant = None =>
                (last.ok /\ last.ret = <<a.default>> /\ last.calls = <<>>)
            /\ (a.variant # None /\ a.variant \in DOMAIN allvariants) =>
                LET f == allvariants[a.variant][a.key]
                IN  /\ last.ok
                    /\ f = _SENTINEL => last.ret = <<a.default>>
                    /\ f \in DOMAIN checks =>
                        last.ret = <<FirstSupported(checks[f], a.conn, a.default)>>
                    /\ (f # _SENTINEL /\ f \notin DOMAIN checks) => last.ret = <<f>>

\* C4 witness: solaris11's inputtype is a concrete None; a lookup with
\* default "ide" has returned None.
C4_ConcreteNoneReturned ==
    /\ last.op = "lookup_osdict_key" /\ last.ok
    /\ last.args.variant = "solaris11" /\ last.args.key = "inputtype"
    /\ last.args.default = "ide"
    /\ allvariants["solaris11"].inputtype = None
    /\ last.ret = <<None>>

\* C5: resolving a _SupportCheck asks the connection about its pairs in list
\* order, once each, with the caller's hv_type; every call but the last was
\* answered false; it stops before the end of the list only on a supported
\* pair, whose value is the result; with no pair supported every pair was
\* asked and the result is the caller's default.
C5_ChecksInOrderUntilFirstMatch ==
    (/\ last.op = "lookup_osdict_key"
     /\ last.args.variant \in DOMAIN allvariants
     /\ allvariants[last.args.variant][last.args.key] \in DOMAIN checks) =>
        LET a == last.args
            cks == checks[allvariants[a.variant][a.key]]
            n == Len(last.calls)
        IN  /\ n >= 1 /\ n <= Len(cks)
            /\ \A i \in 1..n : last.calls[i] = <<cks[i][1], a.hv_type>>
            /\ \A i \in 1..(n - 1) : ~a.conn[cks[i][1]]
            /\ n < Len(cks) => a.conn[cks[n][1]]
            /\ a.conn[cks[n][1]] => last.ret = <<cks[n][2]>>
            /\ ~a.conn[cks[n][1]] => last.ret = <<a.default>>

\* C5 witness: a check with two pairs, both supported by the connection, has
\* been resolved with one call, and the first pair's value returned.
C5_StoppedAtFirstMatch ==
    /\ last.op = "lookup_osdict_key"
    /\ last.args.variant = "debianwheezy" /\ last.args.key = "diskbus"
    /\ Len(checks["_DISK_BUS_VIRTIO"]) = 2
    /\ \A k \in SupportKeys : last.args.conn[k]
    /\ last.calls = << <<"SUPPORT_CONN_HV_VIRTIO", last.args.hv_type>> >>
    /\ last.ret = <<"virtio">>

----------------------------------------------------------------------------
(* _sort and list_os                                                       *)

\* Longest list a caller passes as sortpref in the model.
MaxPref == 2

Range(s) == {s[i] : i \in DOMAIN s}

\* list.reverse()
Reverse(s) == [i \in 1..Len(s) |-> s[Len(s) + 1 - i]]

\* x put into the ascending list s
RECURSIVE InsertSorted(_, _)
InsertSorted(x, s) ==
    IF s = <<>> THEN <<x>>
    ELSE IF StrLess(Head(s), x) THEN <<Head(s)>> \o InsertSorted(x, Tail(s))
    ELSE <<x>> \o s

\* list.sort() on a list of str
RECURSIVE SortAsc(_)
SortAsc(s) == IF s = <<>> THEN <<>> ELSE InsertSorted(Head(s), SortAsc(Tail(s)))

\* dict.keys() followed by list.sort(): the keys, ascending.
RECURSIVE SortedKeys(_)
SortedKeys(S) ==
    IF S = {}
        THEN <<>>
        ELSE LET m == CHOOSE x \in S : \A y \in S : ~StrLess(y, x)
             IN  <<m>> \o SortedKeys(S \ {m})

\* A distro's list left ascending: sort() without reverse().
SortedAscendingOnly(s) == SortAsc(s)

\* distro_list.sort(); distro_list.reverse()
SortedDescending(s) == Reverse(SortAsc(s))

\* dict.items(): the keys of d in this process's iteration order.
ItemsOrder(d, order) == SelectSeq(order, LAMBDA k : k \in DOMAIN d)

\* osinfo.sortby or key
SortKeyOf(tosort, key) == PyOr(tosort[key].sortby, key)

\* osinfo.distro or "zzzzzzz"
DistroOf(tosort, key) == PyOr(tosort[key].distro, "zzzzzzz")

\* sortby_mappings after the first loop: each sortby maps to the key that
\* was assigned last.
SortbyMappings(tosort, items) ==
    [sk \in {SortKeyOf(tosort, k) : k \in DOMAIN tosort} |->
        LET at == {i \in 1..Len(items) : SortKeyOf(tosort, items[i]) = sk}
        IN  items[CHOOSE i \in at : \A j \in at : j <= i]]

\* distro_mappings after the first loop: each distro's sortby values in
\* iteration order.
DistroMappings(tosort, items) ==
    [d \in {DistroOf(tosort, k) : k \in DOMAIN tosort} |->
        LET sel == SelectSeq(items, LAMBDA k : DistroOf(tosort, k) = d)
        IN  [i \in 1..Len(sel) |-> SortKeyOf(tosort, sel[i])]]

\* The loop over the reversed sortpref: each preferred distro that is in the
\* list is removed and put first.
RECURSIVE ApplyPrefs(_, _)
ApplyPrefs(distros, prefs) ==
    IF prefs = <<>>
        THEN distros
        ELSE LET prefer == Head(prefs)
             IN  ApplyPrefs(
                     IF prefer \in Range(distros)
                         THEN <<prefer>> \o SelectSeq(distros, LAMBDA d : d # prefer)
                         ELSE distros,
                     Tail(prefs))

\* The last loop: for each distro in order, the records its sortby values
\* map to.  A record is written as its registry key.
RECURSIVE Assemble(_, _, _)
Assemble(distros, distro_mappings, sortby_mappings) ==
    IF distros = <<>>
        THEN <<>>
        ELSE LET distro_list == distro_mappings[Head(distros)]
             IN  [i \in 1..Len(distro_list) |-> sortby_mappings[distro_list[i]]]
                     \o Assemble(Tail(distros), distro_mappings, sortby_mappings)

\* _sort(tosort, sortpref): the list returned, and the list object sortpref
\* as the call leaves it.  sortpref is <<>> for None or an empty list.
_sort(tosort, pref, order) ==
    LET items == ItemsOrder(tosort, order)
        sortby_mappings == SortbyMappings(tosort, items)
        unsorted == DistroMappings(tosort, items)
        distro_mappings == [d \in DOMAIN unsorted |-> SortedDescending(unsorted[d])]
        reversed == Reverse(pref)
        sorted_distro_list == ApplyPrefs(SortedKeys(DOMAIN distro_mappings), reversed)
    IN  [retlist |-> Assemble(sorted_distro_list, distro_mappings, sortby_mappings),
         sortpref |-> reversed]

\* The loop of list_os with the only_supported test left out.
SortMapIgnoringSupported(reg, a) ==
    LET filtervars == IF a.hasfilter THEN a.filtervars ELSE <<>>
        kept == {key \in DOMAIN reg :
                    /\ ~(Truthy(a.list_types) /\ ~Truthy(reg[key].is_type))
                    /\ ~(~Truthy(a.list_types) /\ Truthy(reg[key].is_type))
                    /\ ~(Truthy(a.typename) /\ a.typename # reg[key].typename)
                    /\ ~(filtervars # <<>> /\ reg[key].name \notin Range(filtervars))}
    IN  [key \in kept |-> reg[key]]

\* The loop of list_os: the local sortmap.  a.hasfilter is false for
\* filtervars=None.
SortMap(reg, a) ==
    LET filtervars == IF a.hasfilter THEN a.filtervars ELSE <<>>
        kept == {key \in DOMAIN reg :
                    /\ ~(Truthy(a.list_types) /\ ~Truthy(reg[key].is_type))
                    /\ ~(~Truthy(a.list_types) /\ Truthy(reg[key].is_type))
                    /\ ~(Truthy(a.typename) /\ a.typename # reg[key].typename)
                    /\ ~(filtervars # <<>> /\ reg[key].name \notin Range(filtervars))
                    /\ ~(Truthy(a.only_supported) /\ ~Truthy(reg[key].supported))}
    IN  [key \in kept |-> reg[key]]

\* A caller's list_os(list_types, typename, filtervars, only_supported), with
\* sortpref=<its list object> when a.haspref.  The call record also keeps the
\* list's elements as they were when the call was made.
list_os(a) ==
    LET sortmap == SortMap(allvariants, a)
        r == _sort(sortmap, IF a.haspref THEN sortpref ELSE <<>>, hashorder)
    IN  /\ sortpref' = IF a.haspref THEN r.sortpref ELSE sortpref
        /\ last' = Call("list_os",
                        [list_types |-> a.list_types, typename |-> a.typename,
                         hasfilter |-> a.hasfilter, filtervars |-> a.filtervars,
                         only_supported |-> a.only_supported,
                         haspref |-> a.haspref,
                         pref |-> IF a.haspref THEN sortpref ELSE <<>>],
                        Return(None), r.retlist, <<>>, DOMAIN sortmap)
        /\ UNCHANGED <<allvariants, checks, hashorder>>

\* The arguments of a list_os call.
ListArgs(list_types, typename, hasfilter, filtervars, only_supported, haspref) ==
    [list_types |-> list_types, typename |-> typename, hasfilter |-> hasfilter,
     filtervars |-> filtervars, only_supported |-> only_supported,
     haspref |-> haspref]

\* The orders of the keys of S.
Perms(S) ==
    {p \in [1..Cardinality(S) -> S] : \A i, j \in DOMAIN p : p[i] = p[j] => i = j}

\* Iteration orders of a process holding reg.  list_os never puts a type and
\* a variant into one sortmap, and the types' sort keys are their distinct
\* names, so only the variants' relative order can show.
HashOrders(reg) ==
    LET types == {k \in DOMAIN reg : Truthy(reg[k].is_type)}
    IN  {SortedKeys(types) \o p : p \in Perms(DOMAIN reg \ types)}

\* Lists of at most n elements of S.
SeqsUpTo(S, n) == UNION {[1..k -> S] : k \in 0..n}

----------------------------------------------------------------------------
(* Listing: registries of linux and three debian variants                  *)

\* Keyword arguments of the three variants' definitions, before parent.
ListEtchKw ==
    {[distro |-> "debian"], KwEtch, [distro |-> "debian", sortby |-> "debian5"]}
ListLennyKw ==
    {[sortby |-> "debian5", supported |-> True],
     [sortby |-> "debian5", supported |-> True, distro |-> "fedora"]}
ListSqueezeKw ==
    {[sortby |-> "debian6"], [sortby |-> "debian5"], [sortby |-> "debianetch"],
     [sortby |-> "debian5", distro |-> "debian"]}

\* The definition lists a listed registry is built from.
ListDefLists ==
    { << Def("_add_type", "linux", "Linux", NoKw),
         Def("_add_var", "debianetch", "Debian Etch", WithParent(e, "linux")),
         Def("_add_var", "debianlenny", "Debian Lenny", WithParent(l, "debianetch")),
         Def("_add_var", "debiansqueeze", "Debian Squeeze", WithParent(q, p)) >> :
        e \in ListEtchKw, l \in ListLennyKw, q \in ListSqueezeKw,
        p \in {"debianlenny", "linux"} }

\* The distros a caller names in sortpref.
PrefDistros == {"debian", "fedora"}

\* Arguments of the list_os calls made on these registries.
SortedListArgs ==
    {ListArgs(t, None, FALSE, <<>>, o, h) :
        t \in {True, False}, o \in {True, False}, h \in BOOLEAN}

\* A finished registry, this process's dict order, and a caller's list.
ListInit ==
    /\ allvariants \in {Build(<<>>, defs) : defs \in ListDefLists}
    /\ hashorder \in HashOrders(allvariants)
    /\ sortpref \in SeqsUpTo(PrefDistros, MaxPref)
    /\ checks = ModuleChecks
    /\ last = NoCall

ListSorted == \E a \in SortedListArgs : list_os(a)

ListNext == ListSorted

SpecList == ListInit /\ [][ListNext]_vars

\* The distro family of a listed record, None without one.
Family(n) == allvariants[n].distro

\* Family f's group comes before family g's: one without a family is last,
\* then families of the preference list pref in the order of their first
\* mention, then the others ascending.
GroupBefore(f, g, pref) ==
    LET First(x) == CHOOSE i \in DOMAIN pref : pref[i] = x /\ \A j \in 1..(i - 1) : pref[j] # x
    IN  IF f = g \/ f = None THEN FALSE
        ELSE IF g = None THEN TRUE
        ELSE IF f \in Range(pref) /\ g \in Range(pref) THEN First(f) < First(g)
        ELSE IF f \in Range(pref) THEN TRUE
        ELSE IF g \in Range(pref) THEN FALSE
        ELSE StrLess(f, g)

\* C6: the list returned is the kept records' family groups one after the
\* other: every kept record is in it, no record stands before a record of an
\* earlier group, and records of one group stand in descending sortKey order.
C6_GroupedAndDescending ==
    last.op = "list_os" =>
        /\ last.sortmap \subseteq Range(last.ret)
        /\ \A i, j \in DOMAIN last.ret :
            i < j =>
                LET x == last.ret[i]
                    y == last.ret[j]
                IN  /\ ~GroupBefore(Family(y), Family(x), last.args.pref)
                    /\ Family(x) = Family(y) =>
                        ~StrLess(SortKeyOf(allvariants, x), SortKeyOf(allvariants, y))

\* The records list_os kept have pairwise different sort keys.
DistinctSortKeys ==
    \A x, y \in last.sortmap :
        x # y => SortKeyOf(allvariants, x) # SortKeyOf(allvariants, y)

\* C6 read for calls whose kept records have pairwise different sort keys.
C6_WhenSortKeysDiffer ==
    (last.op = "list_os" /\ DistinctSortKeys) => C6_GroupedAndDescending

\* C10: the list returned holds every kept record exactly once.
C10_ResultIsPermutation ==
    last.op = "list_os" =>
        /\ Len(last.ret) = Cardinality(last.sortmap)
        /\ Range(last.ret) = last.sortmap

\* C10 read for calls whose kept records have pairwise different sort keys.
C10_WhenSortKeysDiffer ==
    (last.op = "list_os" /\ DistinctSortKeys) => C10_ResultIsPermutation

\* Two list_os calls with the same arguments; the sortpref list is the same
\* object, whatever it holds.
SameListCall(a, b) ==
    /\ a.list_types = b.list_types /\ a.typename = b.typename
    /\ a.hasfilter = b.hasfilter /\ a.filtervars = b.filtervars
    /\ a.only_supported = b.only_supported /\ a.haspref = b.haspref

\* C8: a list_os call changes neither the registry nor the caller's list, and
\* a call that follows one with the same arguments returns the same list.
C8_ListIsPureAndReproducible ==
    [][last'.op = "list_os" =>
        /\ allvariants' = allvariants
        /\ sortpref' = sortpref
        /\ (last.op = "list_os" /\ SameListCall(last.args, last'.args))
                => last'.ret = last.ret]_vars

\* The registry of the example: linux, debianetch without sortby,
\* debianlenny and debiansqueeze.
C9Registry ==
    Build(<<>>,
          << Def("_add_type", "linux", "Linux", NoKw),
             Def("_add_var", "debianetch", "Debian Etch",
                 [distro |-> "debian", parent |-> "linux"]),
             Def("_add_var", "debianlenny", "Debian Lenny",
                 [distro |-> "debian", sortby |-> "debian5", supported |-> True,
                  parent |-> "debianetch"]),
             Def("_add_var", "debiansqueeze", "Debian Squeeze",
                 [distro |-> "debian", sortby |-> "debian6",
                  parent |-> "debianlenny"]) >>)

\* The example's call: variants only, no filter, no preference list.
C9Call ==
    /\ allvariants = C9Registry
    /\ last.op = "list_os"
    /\ last.args = [list_types |-> False, typename |-> None, hasfilter |-> FALSE,
                    filtervars |-> <<>>, only_supported |-> False,
                    haspref |-> FALSE, pref |-> <<>>]

\* C9 as stated: the example's call returns debiansqueeze, debianlenny,
\* debianetch.
C9_ExampleOrderAsStated ==
    C9Call => last.ret = <<"debiansqueeze", "debianlenny", "debianetch">>

\* C9 amended: debianetch sorts by its name, which is greater than "debian6"
\* and "debian5", so the example's call returns debianetch, debiansqueeze,
\* debianlenny.
C9_ExampleOrder ==
    C9Call => last.ret = <<"debianetch", "debiansqueeze", "debianlenny">>

\* C9 witness: the example's call has been made on the example's registry.
C9_ExampleListed == C9Call /\ Len(last.ret) = 3

----------------------------------------------------------------------------
(* Filtering: registries of two types and three variants                   *)

\* The definition lists a filtered registry is built from: linux with
\* debianetch and debianlenny, windows with win2k.
FilterDefLists ==
    { << Def("_add_type", "linux", "Linux", NoKw),
         Def("_add_var", "debianetch", "Debian Etch", WithParent(KwEtch, "linux")),
         Def("_add_var", "debianlenny", "Debian Lenny", WithParent(l, "debianetch")),
         Def("_add_type", "windows", "Windows", [clock |-> "localtime"]),
         Def("_add_var", "win2k", "Microsoft Windows 2000", WithParent(w, "windows")) >> :
        l \in {KwLenny, KwRhel5},
        w \in {[sortby |-> "mswin4"], [sortby |-> "mswin4", supported |-> True]} }

\* The filtervars a caller passes: an empty list, registered names, and a
\* name that is not registered.
FilterVars == {<<>>, <<"debianlenny", "win2k">>, <<"rhel9">>}

\* Arguments of the list_os calls made on these registries.
FilteredListArgs ==
    {ListArgs(t, n, FALSE, <<>>, o, FALSE) :
        t \in {True, False}, n \in {None, "linux", "windows"}, o \in {True, False}}
    \cup
    {ListArgs(t, n, TRUE, f, o, FALSE) :
        t \in {True, False}, n \in {None, "linux", "windows"}, f \in FilterVars,
        o \in {True, False}}

FilterInit ==
    /\ allvariants \in {Build(<<>>, defs) : defs \in FilterDefLists}
    /\ hashorder \in HashOrders(allvariants)
    /\ sortpref = <<>>
    /\ checks = ModuleChecks
    /\ last = NoCall

ListFiltered == \E a \in FilteredListArgs : list_os(a)

FilterNext == ListFiltered

SpecFilter == FilterInit /\ [][FilterNext]_vars

\* The registered names a call with arguments a is to keep, where an empty
\* name filter counts as a filter when emptyfilters and as none otherwise.
Keeps(a, emptyfilters) ==
    {n \in DOMAIN allvariants :
        /\ (a.list_types = True) <=> (allvariants[n].is_type = True)
        /\ a.typename = None \/ a.typename = allvariants[n].typename
        /\ \/ ~a.hasfilter
           \/ (~emptyfilters /\ a.filtervars = <<>>)
           \/ allvariants[n].name \in Range(a.filtervars)
        /\ a.only_supported = False \/ allvariants[n].supported = True}

====
